---- MODULE Spec2Model ----
(***************************************************************************)
(* Model of the browser controller pharmacy_agent.js: the session state    *)
(* machine (startSession / endSession / primary button) and the            *)
(* function-call relay (dataChannel.onmessage, functionCallSocket          *)
(* .onmessage) that assembles streamed tool calls in pendingCalls,         *)
(* dispatches them to the backend WebSocket and feeds replies back to the  *)
(* realtime data channel.                                                  *)
(*                                                                         *)
(* Every handler runs to completion on the single event loop, so each      *)
(* handler is one atomic action; startSession is split at its awaits.      *)
(* Platform behaviour the handlers rely on:                                *)
(*   - WebSocket.send throws InvalidStateError while CONNECTING, and       *)
(*     silently discards the data while CLOSING or CLOSED;                 *)
(*   - RTCDataChannel.send throws InvalidStateError unless "open";         *)
(*   - message events are delivered only while the channel is OPEN/"open". *)
(***************************************************************************)
EXTENDS Integers, Sequences, FiniteSets, TLC

(* ------------------------------ bounds --------------------------------- *)
MaxArgLen == 3

(* ------------------------- input domains ------------------------------- *)
Slots == {0, 1}
CallIds == {"c1", "c2"}
NameOf == [c \in CallIds |-> IF c = "c1" THEN "get_stock" ELSE "get_price"]
Fragments == {"[", "1]"}
Results == {[t |-> "obj", k |-> "x", v |-> 1]}
Messages == {"boom"}

(* ------------------------------ state ---------------------------------- *)
VARIABLES
    currentUIState,   \* "agentLoading" | "ready" | "connecting" | "active" | "muted"
    peerConnection,   \* connectionState of the RTCPeerConnection the global refers to
    dataChannel,      \* readyState of the RTCDataChannel the global refers to
    functionCallSocket, \* readyState of the WebSocket the global refers to
    localStream,      \* "none" | "live" | "stopped"
    tracksEnabled,    \* enabled flag of the audio tracks of localStream
    startPC,          \* await at which startSession is suspended: "none" | "mic" | "sdp"
    pendingCalls,     \* slot -> [call_id, name, arguments]; DOMAIN = slots present
    wsOut,            \* messages the last handler transmitted to the backend
    dcOut,            \* messages the last handler sent on the realtime channel
    errorReported,    \* the last handler logged an error or ended in an uncaught exception
    lastOp,           \* outcome of the last handler (observation only)
    track             \* per slot, the call the event stream is assembling (observation only)

vars == <<currentUIState, peerConnection, dataChannel, functionCallSocket,
          localStream, tracksEnabled, startPC, pendingCalls, wsOut, dcOut,
          errorReported, lastOp, track>>

session == <<currentUIState, peerConnection, dataChannel, functionCallSocket,
             localStream, tracksEnabled, startPC>>

NoTrack == [phase |-> "none"]

Init ==
    /\ currentUIState = "agentLoading"
    /\ peerConnection = "none"
    /\ dataChannel = "none"
    /\ functionCallSocket = "none"
    /\ localStream = "none"
    /\ tracksEnabled = TRUE
    /\ startPC = "none"
    /\ pendingCalls = <<>>
    /\ wsOut = <<>>
    /\ dcOut = <<>>
    /\ errorReported = FALSE
    /\ lastOp = "init"
    /\ track = [s \in Slots |-> NoTrack]

(* No relay output, no error: what a handler that only logs leaves behind. *)
Quiet(op) ==
    /\ wsOut' = <<>>
    /\ dcOut' = <<>>
    /\ errorReported' = FALSE
    /\ lastOp' = op

(* ------------------------- session state machine ----------------------- *)

(* MutationObserver callback: the avatar is visible, updateUI("ready"). *)
AgentVisible ==
    /\ currentUIState = "agentLoading"
    /\ currentUIState' = "ready"
    /\ Quiet("session")
    /\ UNCHANGED <<peerConnection, dataChannel, functionCallSocket, localStream,
                   tracksEnabled, startPC, pendingCalls, track>>

(* primaryButton.onclick calling startSession() without the test of
   currentUIState: a click while connecting starts again. *)
ClickStartAnyState ==
    /\ currentUIState \in {"ready", "connecting"}
    /\ currentUIState' = "connecting"
    /\ peerConnection' = "new"
    /\ startPC' = "mic"
    /\ Quiet("session")
    /\ UNCHANGED <<dataChannel, functionCallSocket, localStream, tracksEnabled,
                   pendingCalls, track>>

(* primaryButton.onclick, case "ready": startSession() up to its first await. *)
ClickStart ==
    /\ currentUIState = "ready"
    /\ currentUIState' = "connecting"
    /\ peerConnection' = "new"
    /\ startPC' = "mic"
    /\ Quiet("session")
    /\ UNCHANGED <<dataChannel, functionCallSocket, localStream, tracksEnabled,
                   pendingCalls, track>>

(* primaryButton.onclick, cases "active" and "muted". *)
ClickToggle ==
    /\ currentUIState \in {"active", "muted"}
    /\ currentUIState' = IF currentUIState = "active" THEN "muted" ELSE "active"
    /\ tracksEnabled' = IF localStream = "none" THEN tracksEnabled
                        ELSE (currentUIState = "muted")
    /\ Quiet("session")
    /\ UNCHANGED <<peerConnection, dataChannel, functionCallSocket, localStream,
                   startPC, pendingCalls, track>>

(* startSession resumes after getUserMedia: tracks added, data channel and
   backend socket created, then suspended again in the SDP exchange. *)
MicGranted ==
    /\ startPC = "mic"
    /\ localStream' = "live"
    /\ tracksEnabled' = TRUE
    /\ dataChannel' = "connecting"
    /\ functionCallSocket' = "connecting"
    /\ startPC' = "sdp"
    /\ Quiet("session")
    /\ UNCHANGED <<currentUIState, peerConnection, pendingCalls, track>>

(* Microphone denied or unavailable: alert, updateUI("ready"), return. *)
MicFailed ==
    /\ startPC = "mic"
    /\ currentUIState' = "ready"
    /\ startPC' = "none"
    /\ wsOut' = <<>> /\ dcOut' = <<>>
    /\ errorReported' = TRUE
    /\ lastOp' = "session"
    /\ UNCHANGED <<peerConnection, dataChannel, functionCallSocket, localStream,
                   tracksEnabled, pendingCalls, track>>

(* endSession() without the close of the backend socket. *)
EndSessionEffectKeepsSocket ==
    /\ localStream' = IF localStream = "none" THEN "none" ELSE "stopped"
    /\ dataChannel' = IF dataChannel = "none" THEN "none" ELSE "closed"
    /\ functionCallSocket' = functionCallSocket
    /\ peerConnection' = IF peerConnection = "none" THEN "none" ELSE "closed"
    /\ currentUIState' = "ready"

(* endSession(): stop tracks, close both channels and the peer connection,
   updateUI("ready").  pendingCalls is not touched. *)
EndSessionEffect ==
    /\ localStream' = IF localStream = "none" THEN "none" ELSE "stopped"
    /\ dataChannel' = IF dataChannel = "none" THEN "none" ELSE "closed"
    /\ functionCallSocket' = IF functionCallSocket = "none" THEN "none" ELSE "closed"
    /\ peerConnection' = IF peerConnection = "none" THEN "none" ELSE "closed"
    /\ currentUIState' = "ready"

(* The offer/answer exchange succeeds: setRemoteDescription applied. *)
SdpAnswered ==
    /\ startPC = "sdp"
    /\ peerConnection = "new"
    /\ startPC' = "none"
    /\ peerConnection' = "connecting"
    /\ Quiet("session")
    /\ UNCHANGED <<currentUIState, dataChannel, functionCallSocket, localStream,
                   tracksEnabled, pendingCalls, track>>

(* createOffer / fetch / setRemoteDescription fails: catch, endSession(). *)
SdpFailed ==
    /\ startPC = "sdp"
    /\ startPC' = "none"
    /\ EndSessionEffect
    /\ wsOut' = <<>> /\ dcOut' = <<>>
    /\ errorReported' = TRUE
    /\ lastOp' = "endSession"
    /\ UNCHANGED <<tracksEnabled, pendingCalls, track>>

(* peerConnection.onconnectionstatechange *)
ConnectionStateChange(s) ==
    /\ \/ peerConnection = "connecting" /\ s \in {"connected", "failed"}
       \/ peerConnection = "connected" /\ s = "disconnected"
    /\ IF s \in {"failed", "disconnected"}
       THEN /\ EndSessionEffect
            /\ lastOp' = "endSession"
       ELSE /\ peerConnection' = s
            /\ lastOp' = "session"
            /\ UNCHANGED <<currentUIState, dataChannel, functionCallSocket, localStream>>
    /\ wsOut' = <<>> /\ dcOut' = <<>> /\ errorReported' = FALSE
    /\ UNCHANGED <<tracksEnabled, startPC, pendingCalls, track>>

(* audioEl.onplaying: updateUI("active") *)
OnPlaying ==
    /\ peerConnection = "connected"
    /\ currentUIState' = "active"
    /\ Quiet("session")
    /\ UNCHANGED <<peerConnection, dataChannel, functionCallSocket, localStream,
                   tracksEnabled, startPC, pendingCalls, track>>

(* dataChannel.onopen / onclose: log only. *)
DataChannelOpen ==
    /\ dataChannel = "connecting"
    /\ peerConnection = "connected"
    /\ dataChannel' = "open"
    /\ Quiet("session")
    /\ UNCHANGED <<currentUIState, peerConnection, functionCallSocket, localStream,
                   tracksEnabled, startPC, pendingCalls, track>>

DataChannelClosed ==
    /\ dataChannel = "open"
    /\ dataChannel' = "closed"
    /\ Quiet("session")
    /\ UNCHANGED <<currentUIState, peerConnection, functionCallSocket, localStream,
                   tracksEnabled, startPC, pendingCalls, track>>

(* functionCallSocket.onopen / onerror / onclose: log only. *)
SocketOpen ==
    /\ functionCallSocket = "connecting"
    /\ functionCallSocket' = "open"
    /\ Quiet("session")
    /\ UNCHANGED <<currentUIState, peerConnection, dataChannel, localStream,
                   tracksEnabled, startPC, pendingCalls, track>>

SocketClosed ==
    /\ functionCallSocket \in {"connecting", "open"}
    /\ functionCallSocket' = "closed"
    /\ wsOut' = <<>> /\ dcOut' = <<>>
    /\ errorReported' = (functionCallSocket = "connecting")
    /\ lastOp' = "session"
    /\ UNCHANGED <<currentUIState, peerConnection, dataChannel, localStream,
                   tracksEnabled, startPC, pendingCalls, track>>

SessionNext ==
    \/ AgentVisible
    \/ ClickStart
    \/ ClickToggle
    \/ MicGranted
    \/ MicFailed
    \/ SdpAnswered
    \/ SdpFailed
    \/ \E s \in {"connected", "failed", "disconnected"} : ConnectionStateChange(s)
    \/ OnPlaying
    \/ DataChannelOpen
    \/ DataChannelClosed
    \/ SocketOpen
    \/ SocketClosed

(* ----------------------- realtime channel events ---------------------- *)

(* Parsed inbound events.  output_index is optional; the legacy
   "response.function_call.created" event may carry the call fields at the
   top level instead of a nested item.  Delta events carry the call_id of the
   call they belong to; the handler does not read it. *)
WithOptIndex(base) ==
    base \cup { m @@ [output_index |-> i] : m \in base, i \in Slots }

FunctionCallItems == { [type |-> "function_call", call_id |-> c, name |-> NameOf[c]] : c \in CallIds }
MessageItems == { [type |-> "message"] }

AddedEvents ==
    WithOptIndex([type : {"response.output_item.added"}, item : FunctionCallItems])
    \cup [type : {"response.output_item.added"}, item : MessageItems]
    \cup [type : {"response.function_call.created"}, item : FunctionCallItems]
    \cup { [type |-> "response.function_call.created", call_id |-> c, name |-> NameOf[c]] :
             c \in CallIds }

DeltaEvents ==
    WithOptIndex([type : {"response.function_call_arguments.delta"},
                  call_id : CallIds, delta : Fragments])

DoneEvents ==
    WithOptIndex([type : {"response.output_item.done"},
                  item : [type : {"function_call"}, call_id : CallIds]])
    \cup [type : {"response.output_item.done"}, item : MessageItems]
    \cup [type : {"response.output_item.done"}]

OtherEvents ==
    [type : {"response.done", "session.updated"}]

(* msg.output_index ?? 0 *)
OutputIndexDefaultOne(msg) == IF "output_index" \in DOMAIN msg THEN msg.output_index ELSE 1
OutputIndex(msg) == IF "output_index" \in DOMAIN msg THEN msg.output_index ELSE 0

(* msg.item ?? msg *)
ItemOf(msg) == IF "item" \in DOMAIN msg THEN msg.item ELSE msg

(* msg.item?.type *)
ItemType(msg) == IF "item" \in DOMAIN msg THEN msg.item.type ELSE "undefined"

(* The record stored at "call start". *)
NewPendingCall(item) ==
    [call_id |-> item.call_id, name |-> item.name, arguments |-> ""]

(* pendingCalls[idx].arguments += msg.delta *)
AppendArgumentPrepend(buffer, delta) == delta \o buffer
AppendArgument(buffer, delta) == buffer \o delta

(* call && call.call_id === msg.item.call_id *)
CallIdGateSlotOnly(calls, idx, msg) == idx \in DOMAIN calls
CallIdGate(calls, idx, msg) ==
    /\ idx \in DOMAIN calls
    /\ calls[idx].call_id = msg.item.call_id

(* delete pendingCalls[idx] *)
DeleteAll(calls, idx) == <<>>
Delete(calls, idx) == [s \in (DOMAIN calls) \ {idx} |-> calls[s]]

(* pendingCalls[idx] = value *)
Put(calls, idx, value) ==
    [s \in (DOMAIN calls) \cup {idx} |-> IF s = idx THEN value ELSE calls[s]]

(* Outcome of functionCallSocket.send by readyState. *)
SocketSend(readyState) ==
    CASE readyState = "open" -> "sent"
      [] readyState = "connecting" -> "throws"
      [] OTHER -> "discarded"

(* Observation of the event stream: the call being assembled at a slot. *)
Concat(frags) ==
    LET RECURSIVE cat(_)
        cat(k) == IF k = 0 THEN "" ELSE cat(k - 1) \o frags[k]
    IN cat(Len(frags))

(* case "response.output_item.added" / "response.function_call.created" *)
OnOutputItemAdded(msg) ==
    /\ dataChannel = "open"
    /\ LET item == ItemOf(msg)
           idx == OutputIndex(msg)
       IN IF item.type = "function_call"
          THEN /\ pendingCalls' = Put(pendingCalls, idx, NewPendingCall(item))
               /\ track' = [track EXCEPT ![idx] =
                     [phase |-> "open", call_id |-> item.call_id,
                      name |-> item.name, frags |-> <<>>]]
               /\ lastOp' = IF idx \in DOMAIN pendingCalls
                               /\ pendingCalls[idx].call_id # item.call_id
                            THEN "call_overwrite" ELSE "call_start"
          ELSE /\ UNCHANGED <<pendingCalls, track>>
               /\ lastOp' = "added_ignored"
    /\ wsOut' = <<>> /\ dcOut' = <<>> /\ errorReported' = FALSE
    /\ UNCHANGED session

(* case "response.function_call_arguments.delta" *)
OnArgumentsDelta(msg) ==
    /\ dataChannel = "open"
    /\ LET idx == OutputIndex(msg)
       IN IF idx \in DOMAIN pendingCalls
          THEN /\ Len(pendingCalls[idx].arguments) + Len(msg.delta) <= MaxArgLen
               /\ pendingCalls' = [pendingCalls EXCEPT ![idx].arguments =
                                     AppendArgument(@, msg.delta)]
               /\ track' = IF track[idx].phase = "open"
                           THEN [track EXCEPT ![idx].frags = Append(@, msg.delta)]
                           ELSE track
               /\ lastOp' = "delta_append"
          ELSE /\ UNCHANGED <<pendingCalls, track>>
               /\ lastOp' = "delta_ignored"
    /\ wsOut' = <<>> /\ dcOut' = <<>> /\ errorReported' = FALSE
    /\ UNCHANGED session

(* case "response.output_item.done", with the catch of the handler *)
OnOutputItemDone(msg) ==
    /\ dataChannel = "open"
    /\ LET idx == OutputIndex(msg)
       IN IF ItemType(msg) # "function_call"
          THEN /\ UNCHANGED <<pendingCalls, track>>
               /\ wsOut' = <<>> /\ errorReported' = FALSE
               /\ lastOp' = "done_ignored"
          ELSE /\ track' = IF track[idx].phase = "open"
                              /\ track[idx].call_id = msg.item.call_id
                           THEN [track EXCEPT ![idx] =
                                   [phase |-> "finished", call_id |-> msg.item.call_id]]
                           ELSE track
               /\ IF CallIdGate(pendingCalls, idx, msg)
                  THEN CASE SocketSend(functionCallSocket) = "sent" ->
                              /\ wsOut' = <<pendingCalls[idx]>>
                              /\ pendingCalls' = Delete(pendingCalls, idx)
                              /\ errorReported' = FALSE
                              /\ lastOp' = "call_exec"
                         [] SocketSend(functionCallSocket) = "discarded" ->
                              /\ wsOut' = <<>>
                              /\ pendingCalls' = Delete(pendingCalls, idx)
                              /\ errorReported' = FALSE
                              /\ lastOp' = "call_discarded"
                         [] SocketSend(functionCallSocket) = "throws" ->
                              /\ wsOut' = <<>>
                              /\ UNCHANGED pendingCalls
                              /\ errorReported' = TRUE
                              /\ lastOp' = "send_error"
                  ELSE /\ UNCHANGED pendingCalls
                       /\ wsOut' = <<>> /\ errorReported' = FALSE
                       /\ lastOp' = IF idx \in DOMAIN pendingCalls
                                    THEN "id_mismatch" ELSE "no_entry"
    /\ dcOut' = <<>>
    /\ UNCHANGED session

(* default: and the UI-only cases: no effect on the relay. *)
OnOtherEvent(msg) ==
    /\ dataChannel = "open"
    /\ Quiet("other_event")
    /\ UNCHANGED <<session, pendingCalls, track>>

(* JSON.parse(event.data) throws: caught, console.error. *)
OnMalformedMessageResets ==
    /\ dataChannel = "open"
    /\ wsOut' = <<>> /\ dcOut' = <<>>
    /\ errorReported' = TRUE
    /\ lastOp' = "decode_error"
    /\ pendingCalls' = <<>>
    /\ UNCHANGED <<session, track>>
OnMalformedMessage ==
    /\ dataChannel = "open"
    /\ wsOut' = <<>> /\ dcOut' = <<>>
    /\ errorReported' = TRUE
    /\ lastOp' = "decode_error"
    /\ UNCHANGED <<session, pendingCalls, track>>

(* --------------------------- backend replies --------------------------- *)

Replies ==
    [status : {"success"}, call_id : CallIds, result : Results]
    \cup [status : {"failure"}, call_id : CallIds, message : Messages]

(* JSON.stringify of a reply's result value. *)
JSONstringify(v) ==
    CASE v.t = "obj" -> "{\"" \o v.k \o "\":" \o ToString(v.v) \o "}"
      [] v.t = "str" -> "\"" \o v.s \o "\""

(* The function_call_output item built for a reply. *)
ToolOutputItemSwapped(response) ==
    IF response.status = "success"
    THEN [type |-> "function_call_output", call_id |-> response.call_id,
          error |-> JSONstringify(response.result)]
    ELSE [type |-> "function_call_output", call_id |-> response.call_id,
          output |-> response.message]
ToolOutputItem(response) ==
    IF response.status = "success"
    THEN [type |-> "function_call_output", call_id |-> response.call_id,
          output |-> JSONstringify(response.result)]
    ELSE [type |-> "function_call_output", call_id |-> response.call_id,
          error |-> response.message]

(* The two messages passed to dataChannel.send, in order. *)
FeedbackMessagesNoContinue(response) ==
    << [type |-> "conversation.item.create", item |-> ToolOutputItem(response)] >>
FeedbackMessages(response) ==
    << [type |-> "conversation.item.create", item |-> ToolOutputItem(response)],
       [type |-> "response.create"] >>

(* dataChannel.send of each message in turn: the first send throws unless the
   channel is open, and the exception leaves the handler. *)
RealtimeSendAllUnchecked(readyState, msgs) == msgs
RealtimeSendAllDrops(readyState, msgs) == <<>>
RealtimeSendAll(readyState, msgs) ==
    IF readyState = "open" THEN msgs ELSE <<>>

(* functionCallSocket.onmessage that also drops the table entries of the
   answered call. *)
OnBackendReplyForgets(response) ==
    /\ functionCallSocket = "open"
    /\ dcOut' = RealtimeSendAll(dataChannel, FeedbackMessages(response))
    /\ wsOut' = <<>>
    /\ errorReported' = (dataChannel # "open" \/ response.status # "success")
    /\ lastOp' = IF dataChannel = "open" THEN "feedback" ELSE "feedback_error"
    /\ pendingCalls' = [s \in {x \in DOMAIN pendingCalls :
                                  pendingCalls[x].call_id # response.call_id}
                          |-> pendingCalls[s]]
    /\ UNCHANGED <<session, track>>

(* functionCallSocket.onmessage *)
OnBackendReply(response) ==
    /\ functionCallSocket = "open"
    /\ dcOut' = RealtimeSendAll(dataChannel, FeedbackMessages(response))
    /\ wsOut' = <<>>
    /\ errorReported' = (dataChannel # "open" \/ response.status # "success")
    /\ lastOp' = IF dataChannel = "open" THEN "feedback" ELSE "feedback_error"
    /\ UNCHANGED <<session, pendingCalls, track>>

(* JSON.parse(event.data) throws in functionCallSocket.onmessage: there is no
   try/catch, the exception leaves the handler and nothing is sent. *)
OnMalformedReply ==
    /\ functionCallSocket = "open"
    /\ wsOut' = <<>> /\ dcOut' = <<>>
    /\ errorReported' = TRUE
    /\ lastOp' = "reply_decode_error"
    /\ UNCHANGED <<session, pendingCalls, track>>

RelayNext ==
    \/ \E msg \in AddedEvents : OnOutputItemAdded(msg)
    \/ \E msg \in DeltaEvents : OnArgumentsDelta(msg)
    \/ \E msg \in DoneEvents : OnOutputItemDone(msg)
    \/ \E msg \in OtherEvents : OnOtherEvent(msg)
    \/ OnMalformedMessage
    \/ \E response \in Replies : OnBackendReply(response)
    \/ OnMalformedReply

Next == SessionNext \/ RelayNext

Spec == Init /\ [][Next]_vars

(* ============================ properties =============================== *)

(* Steps are recognised by the handler that took them.  Each property first
   tests the outcome tag the handler leaves in lastOp (every step of the
   handler sets one of these tags), which only spares evaluating the handler
   on steps of other handlers. *)
FinishOutcomes == {"call_exec", "call_discarded", "send_error", "id_mismatch", "no_entry"}
ReplyOutcomes == {"feedback", "feedback_error"}

(* A "call finished" event: output_item.done whose item is a function call. *)
IsFinish(msg) == ItemType(msg) = "function_call"

(* The pending entry at the event's slot has the event's call id. *)
Matches(msg) ==
    /\ IsFinish(msg)
    /\ OutputIndex(msg) \in DOMAIN pendingCalls
    /\ pendingCalls[OutputIndex(msg)].call_id = msg.item.call_id

(* C1: after a "call finished" event whose call id equals that of the pending
   entry at its slot has been handled, the slot holds no entry, whether or
   not the send to the backend succeeded. *)
C1_RemovedOnFinalize ==
    [][lastOp' \in FinishOutcomes =>
         \A msg \in DoneEvents :
            (Matches(msg) /\ OnOutputItemDone(msg))
               => OutputIndex(msg) \notin DOMAIN pendingCalls']_vars

(* C2: after endSession the Call Assembly Table is empty. *)
C2_EmptyAfterTeardown ==
    lastOp = "endSession" => DOMAIN pendingCalls = {}

(* C3: a "call finished" event whose call id differs from the pending entry
   at its slot, or whose slot holds no entry, transmits nothing to the
   backend. *)
C3_CallIdGate ==
    [][lastOp' \in FinishOutcomes =>
         \A msg \in DoneEvents :
            (IsFinish(msg) /\ ~Matches(msg) /\ OnOutputItemDone(msg))
               => wsOut' = <<>>]_vars

(* A mismatching finish has been handled while the backend socket was open
   and the slot held a call with another id. *)
C3_Witness ==
    /\ lastOp = "id_mismatch"
    /\ functionCallSocket = "open"
    /\ dataChannel = "open"

(* C4: a second "call finished" event for a slot and call id, with no "call
   started" event for the slot since the first, transmits nothing. *)
C4_NoDoubleDispatch ==
    [][lastOp' \in FinishOutcomes =>
         \A msg \in DoneEvents :
            (/\ IsFinish(msg)
             /\ track[OutputIndex(msg)].phase = "finished"
             /\ track[OutputIndex(msg)].call_id = msg.item.call_id
             /\ OnOutputItemDone(msg))
               => wsOut' = <<>>]_vars

(* C5: create(c, n), deltas f1..fN, finish(c) with the backend socket open
   transmits exactly one message [call_id c, name n, arguments f1+...+fN]. *)
C5_OrderPreservingAssembly ==
    [][lastOp' \in FinishOutcomes =>
         \A msg \in DoneEvents :
            (/\ IsFinish(msg)
             /\ track[OutputIndex(msg)].phase = "open"
             /\ track[OutputIndex(msg)].call_id = msg.item.call_id
             /\ functionCallSocket = "open"
             /\ OnOutputItemDone(msg))
               => wsOut' = << [call_id |-> msg.item.call_id,
                               name |-> track[OutputIndex(msg)].name,
                               arguments |-> Concat(track[OutputIndex(msg)].frags)] >>]_vars

(* A call assembled from the fragments "[" then "1]" has been dispatched. *)
C5_Witness ==
    /\ lastOp = "call_exec"
    /\ wsOut = << [call_id |-> "c1", name |-> "get_stock", arguments |-> "[1]"] >>

(* C6: a "call started" event on an occupied slot leaves only the new call
   there, and a delta of the replaced call (its call_id is that of another
   call than the one now in the slot) arriving after the overwrite does not
   change the new call's buffer. *)
C6_OverwriteIsolation ==
    [][/\ lastOp' = "call_overwrite" =>
            \A msg \in AddedEvents :
               (ItemOf(msg).type = "function_call" /\ OnOutputItemAdded(msg))
                  => pendingCalls'[OutputIndex(msg)] =
                       [call_id |-> ItemOf(msg).call_id, name |-> ItemOf(msg).name,
                        arguments |-> ""]
       /\ (lastOp = "call_overwrite" /\ lastOp' = "delta_append") =>
            \A msg \in DeltaEvents :
               (/\ OutputIndex(msg) \in DOMAIN pendingCalls
                /\ pendingCalls[OutputIndex(msg)].call_id # msg.call_id
                /\ OnArgumentsDelta(msg))
                  => pendingCalls'[OutputIndex(msg)] = pendingCalls[OutputIndex(msg)]]_vars

(* C7: a backend reply handled while the realtime channel is open sends
   exactly two realtime messages: a conversation.item.create carrying a
   function_call_output for the reply's call_id, then response.create. *)
C7_FeedbackPair ==
    [][lastOp' \in ReplyOutcomes =>
         \A r \in Replies :
            (dataChannel = "open" /\ OnBackendReply(r))
               => /\ Len(dcOut') = 2
                  /\ dcOut'[1].type = "conversation.item.create"
                  /\ dcOut'[1].item.type = "function_call_output"
                  /\ dcOut'[1].item.call_id = r.call_id
                  /\ dcOut'[2] = [type |-> "response.create"]]_vars

C7_Witness ==
    /\ lastOp = "feedback"
    /\ Len(dcOut) = 2
    /\ "output" \in DOMAIN dcOut[1].item

(* JSON text of each result value, written out. *)
ExpectedJSON == [v \in Results |-> "{\"x\":1}"]

(* C8: the function_call_output item has call_id of the reply and, for
   success, an output field with the JSON text of the result and no error
   field; for failure, an error field with the message and no output field. *)
C8_FeedbackShape ==
    [][lastOp' \in ReplyOutcomes =>
         \A r \in Replies :
            (dataChannel = "open" /\ OnBackendReply(r))
               => LET item == dcOut'[1].item
                  IN /\ item.call_id = r.call_id
                     /\ r.status = "success" =>
                           /\ DOMAIN item = {"type", "call_id", "output"}
                           /\ item.output = ExpectedJSON[r.result]
                     /\ r.status = "failure" =>
                           /\ DOMAIN item = {"type", "call_id", "error"}
                           /\ item.error = r.message]_vars

C8_Witness ==
    /\ lastOp = "feedback"
    /\ dcOut[1].item = [type |-> "function_call_output", call_id |-> "c2", error |-> "boom"]

(* C9: a matching "call finished" event handled while the backend socket is
   not open delivers nothing to the backend, reports an error and sends
   nothing on the realtime channel. *)
C9_DropReported ==
    [][lastOp' \in FinishOutcomes =>
         \A msg \in DoneEvents :
            (Matches(msg) /\ functionCallSocket # "open" /\ OnOutputItemDone(msg))
               => /\ wsOut' = <<>>
                  /\ errorReported'
                  /\ dcOut' = <<>>]_vars

(* C10: a backend reply handled while the realtime channel is not open sends
   neither message and leaves nothing behind; and every step that sends on
   the realtime channel is the handling of a reply with the channel open. *)
C10_NoFeedbackWhenClosed ==
    [][/\ lastOp' \in ReplyOutcomes =>
            \A r \in Replies :
               (dataChannel # "open" /\ OnBackendReply(r))
                  => dcOut' = <<>> /\ UNCHANGED <<session, pendingCalls>>
       /\ dcOut' # <<>> =>
            \E r \in Replies : dataChannel = "open" /\ OnBackendReply(r)]_vars

C10_Witness ==
    /\ lastOp = "feedback_error"
    /\ dataChannel = "closed"
    /\ functionCallSocket = "open"

(* The session is live. *)
Live == currentUIState \in {"active", "muted"}

(* C11: whenever the session is live, the realtime data channel and the
   backend socket of the session are open. *)
C11_LiveImpliesChannelsOpen ==
    Live => (dataChannel = "open" /\ functionCallSocket = "open")

(* C12: whenever the session is idle (ready), neither the data channel nor
   the backend socket is open or connecting. *)
C12_IdleImpliesChannelsClosed ==
    currentUIState = "ready" =>
        /\ dataChannel \in {"none", "closed"}
        /\ functionCallSocket \in {"none", "closed"}

(* endSession has returned the session to idle with both channels created
   in that session closed. *)
C12_Witness ==
    /\ lastOp = "endSession"
    /\ currentUIState = "ready"
    /\ dataChannel = "closed"
    /\ functionCallSocket = "closed"

(* C13: the session state changes only along ready -> connecting,
   connecting -> active, active <-> muted, {connecting, active, muted} ->
   ready, and muted -> active only by the user's toggle.  (The initial
   agentLoading -> ready step precedes the state machine of the claim.) *)
C13_SessionTransitions ==
    [][currentUIState' # currentUIState =>
         /\ <<currentUIState, currentUIState'>> \in
               { <<"agentLoading", "ready">>,
                 <<"ready", "connecting">>,
                 <<"connecting", "active">>,
                 <<"active", "muted">>,
                 <<"muted", "active">>,
                 <<"connecting", "ready">>,
                 <<"active", "ready">>,
                 <<"muted", "ready">> }
         /\ (currentUIState = "muted" /\ currentUIState' = "active") => ClickToggle]_vars

(* Slots other than idx hold after the step what they held before it. *)
OtherSlotsKept(idx) ==
    \A s \in Slots \ {idx} :
        /\ (s \in DOMAIN pendingCalls') = (s \in DOMAIN pendingCalls)
        /\ s \in DOMAIN pendingCalls => pendingCalls'[s] = pendingCalls[s]

(* C14: a failure in the relay (malformed message, delta for an unknown
   slot, call-id mismatch, backend socket unavailable at dispatch, realtime
   channel closed at feedback) leaves the session state and both channels as
   they were and changes no pending entry of another slot. *)
C14_FailuresAreLocal ==
    [][/\ lastOp' \in {"decode_error", "reply_decode_error", "feedback_error"} =>
            ((OnMalformedMessage \/ OnMalformedReply
                \/ \E r \in Replies : dataChannel # "open" /\ OnBackendReply(r))
               => UNCHANGED <<session, pendingCalls>>)
       /\ lastOp' = "delta_ignored" =>
            \A msg \in DeltaEvents :
               OnArgumentsDelta(msg) => (UNCHANGED session /\ OtherSlotsKept(OutputIndex(msg)))
       /\ lastOp' \in {"id_mismatch", "no_entry", "send_error", "call_discarded"} =>
            \A msg \in DoneEvents :
               OnOutputItemDone(msg) => (UNCHANGED session /\ OtherSlotsKept(OutputIndex(msg)))]_vars

(* A call was dropped because the backend socket was closed while another
   slot held a pending call and the session was live. *)
C14_Witness ==
    /\ lastOp = "call_discarded"
    /\ DOMAIN pendingCalls # {}
    /\ Live

(* The JSON texts among the argument buffers the fragments can build. *)
ValidJSONTexts == {"[1]"}

(* C15: a call is transmitted to the backend only if its accumulated
   argument buffer is valid JSON. *)
C15_DispatchOnlyValidJSON ==
    wsOut # <<>> => wsOut[1].arguments \in ValidJSONTexts

(* C16: feedback is sent only for a call that was dispatched and is not yet
   answered; stated for the replies handled before any call has been created
   (their call_id is that of no dispatched call): they send nothing on the
   realtime channel. *)
C16_FeedbackOnlyForOutstanding ==
    ((\A s \in Slots : track[s].phase = "none") /\ lastOp \in ReplyOutcomes)
        => dcOut = <<>>

(* C17: a malformed realtime message and a message of an unrecognised type
   change neither the table nor the session, and nothing is sent on either
   channel. *)
C17_BadMessagesAreNoOps ==
    [][lastOp' \in {"decode_error", "other_event"} =>
         ((OnMalformedMessage \/ \E msg \in OtherEvents : OnOtherEvent(msg))
            => /\ UNCHANGED <<session, pendingCalls>>
               /\ wsOut' = <<>>
               /\ dcOut' = <<>>)]_vars

(* A malformed message has been handled while a call was pending. *)
C17_Witness ==
    /\ lastOp = "decode_error"
    /\ DOMAIN pendingCalls # {}

(* C18: an argument delta for a slot without entry (no output_index reads
   as slot 0) creates no entry, changes no entry, sends nothing and reports
   no error. *)
C18_DeltaForEmptySlot ==
    [][lastOp' \in {"delta_ignored", "delta_append"} =>
         \A msg \in DeltaEvents :
            LET slot == IF "output_index" \in DOMAIN msg THEN msg.output_index ELSE 0
            IN (slot \notin DOMAIN pendingCalls /\ OnArgumentsDelta(msg))
                  => /\ pendingCalls' = pendingCalls
                     /\ wsOut' = <<>>
                     /\ dcOut' = <<>>
                     /\ ~errorReported']_vars

(* A delta for the empty slot 0 has been ignored while slot 1 held a call. *)
C18_Witness ==
    /\ lastOp = "delta_ignored"
    /\ DOMAIN pendingCalls = {1}

(* C20: a "call finished" event whose call id differs from the entry at its
   slot leaves the table as it was, and a "call finished" event with the
   stored call id, handled with the backend socket open, transmits the entry
   as stored. *)
C20_MismatchKeepsEntry ==
    [][lastOp' \in FinishOutcomes =>
         \A msg \in DoneEvents :
            /\ (/\ IsFinish(msg)
                /\ OutputIndex(msg) \in DOMAIN pendingCalls
                /\ pendingCalls[OutputIndex(msg)].call_id # msg.item.call_id
                /\ OnOutputItemDone(msg))
                  => pendingCalls' = pendingCalls
            /\ (Matches(msg) /\ functionCallSocket = "open" /\ OnOutputItemDone(msg))
                  => wsOut' = << pendingCalls[OutputIndex(msg)] >>]_vars

(* A mismatching finish has been handled and the entry, with its complete
   argument buffer, is still in the table. *)
C20_Witness ==
    /\ lastOp = "id_mismatch"
    /\ \E s \in DOMAIN pendingCalls : pendingCalls[s].arguments = "[1]"

(* C21: handling a backend reply (well-formed or not) leaves the table and
   everything the realtime event handlers read (the session variables, among
   them the readyState of both channels) as they were and transmits nothing
   to the backend, and what it sends on the realtime channel is determined by
   the reply and the channel state alone; so the table contents and the
   dispatches produced by the realtime events do not depend on the replies
   interleaved with them. *)
C21_RepliesLeaveTableAlone ==
    [][lastOp' \in ReplyOutcomes \cup {"reply_decode_error"} =>
         /\ (OnMalformedReply \/ \E r \in Replies : OnBackendReply(r))
               => /\ UNCHANGED <<session, pendingCalls>>
                  /\ wsOut' = <<>>
         /\ \A r \in Replies :
               OnBackendReply(r)
                  => \/ dataChannel # "open" /\ dcOut' = <<>>
                     \/ /\ dataChannel = "open"
                        /\ Len(dcOut') = 2
                        /\ dcOut'[1].item.call_id = r.call_id]_vars

(* A reply for c2 has been fed back while the call c1 was still being
   assembled (its buffer is incomplete) in the table. *)
C21_Witness ==
    /\ lastOp = "feedback"
    /\ dcOut # <<>>
    /\ dcOut[1].item.call_id = "c2"
    /\ \E s \in DOMAIN pendingCalls :
          pendingCalls[s].call_id = "c1" /\ pendingCalls[s].arguments = "["

(* C22: a start begins only when no start is suspended at an await, and a
   start that resumes (microphone granted or refused, offer/answer done or
   failed) finds the session still connecting and the objects it created
   itself: the peer connection still new and, once they exist, its own data
   channel still connecting and its own stream live. *)
C22_SingleStartInProgress ==
    [][/\ ClickStart => startPC = "none"
       /\ (MicGranted \/ MicFailed \/ SdpAnswered \/ SdpFailed)
             => /\ currentUIState = "connecting"
                /\ peerConnection = "new"
                /\ startPC = "sdp" => (dataChannel = "connecting" /\ localStream = "live")]_vars

(* A later start is suspended in its offer/answer exchange while the table
   still holds a call of an earlier session, which has ended. *)
C22_Witness ==
    /\ startPC = "sdp"
    /\ currentUIState = "connecting"
    /\ DOMAIN pendingCalls # {}

(* C23: in every state of a live session the microphone tracks are enabled
   exactly when the session state is active (and so disabled exactly when it
   is muted). *)
C23_TracksFollowState ==
    Live => (tracksEnabled <=> currentUIState = "active")

(* ------------------------------ liveness ------------------------------- *)

(* The liveness specification follows the event streams in which calls are
   assembled at slot 0 only; all handlers and all session steps are as in
   Spec. *)
SingleSlot ==
    /\ DOMAIN pendingCalls \subseteq {0}
    /\ \A s \in Slots \ {0} : track[s] = NoTrack

(* The backend's reply for call id c is handled. *)
ReplyFor(c) == \E r \in Replies : r.call_id = c /\ OnBackendReply(r)

(* The backend answers: while the backend socket stays open, a reply for
   each call id is eventually delivered to functionCallSocket.onmessage. *)
LiveNext == Next /\ SingleSlot'
LiveSpec == Init /\ [][LiveNext]_vars /\ \A c \in CallIds : WF_vars(ReplyFor(c))

(* The last handler dispatched call c to the backend. *)
Dispatched(c) ==
    /\ lastOp = "call_exec"
    /\ wsOut # <<>>
    /\ wsOut[1].call_id = c

(* The last handler sent the function_call_output of c, then response.create. *)
FedBack(c) ==
    /\ Len(dcOut) = 2
    /\ dcOut[1].item.type = "function_call_output"
    /\ dcOut[1].item.call_id = c
    /\ dcOut[2] = [type |-> "response.create"]

(* C19: under fair delivery of backend replies, a dispatched call leads to
   its function_call_output followed by response.create on the realtime
   channel, unless the realtime channel or the backend socket leaves the
   open state first. *)
C19_DispatchLeadsToFeedback ==
    \A c \in CallIds :
        Dispatched(c) ~> (FedBack(c) \/ dataChannel # "open" \/ functionCallSocket # "open")

(* Feedback for c1 has been sent with both channels open after the call
   assembled at slot 0 was finished. *)
C19_Witness ==
    /\ FedBack("c1")
    /\ track[0] = [phase |-> "finished", call_id |-> "c1"]
    /\ dataChannel = "open"
    /\ functionCallSocket = "open"
====
